---- MODULE Spec2Model ----
(***************************************************************************)
(* Model of joule's BaseProvider.loop (src/joule/providers/__init__.py)    *)
(* and of the Event value object (src/autoscale/events/__init__.py).       *)
(*                                                                         *)
(* The loop is one sequential thread; every statement of it that calls     *)
(* out (provider operations, Application callbacks, sleep) is one action,  *)
(* and pc is the statement the thread is at.  The abstract provider        *)
(* operations and the Application callbacks are the environment: each      *)
(* call either returns or raises, and the queue read is an iterator that   *)
(* yields Events one at a time.                                            *)
(*                                                                         *)
(* enrolled is the backing platform's enrollment mark of the instance;     *)
(* calls, batch and enrolledAt record the current iteration: the calls     *)
(* made, the Events yielded, and whether the instance was enrolled when    *)
(* each Event was yielded.                                                 *)
(***************************************************************************)
EXTENDS Integers, Sequences, FiniteSets, TLC

VARIABLES applications, tag_enrolled, enrolled, enrolledAt, pc, event, app, batch,
          calls, ctor, exc

vars == <<applications, tag_enrolled, enrolled, enrolledAt, pc, event, app, batch,
          calls, ctor, exc>>

(***************************************************************************)
(* Bounds.                                                                 *)
(***************************************************************************)
MaxApps == 2
MaxBatch == 2

(***************************************************************************)
(* Values.                                                                 *)
(***************************************************************************)
\* Python's None.
None == "None"
\* An argument the caller did not pass (the parameter takes its default).
Omitted == "Omitted"

\* class Events(Enum)
JOIN == 0
LAUNCH == 1
TERMINATE == 2
Events == {JOIN, LAUNCH, TERMINATE}

\* Application objects a Provider can be constructed with.
Apps == {"A", "B"}
\* Instance identifiers and tokens carried by decoded messages.
Instances == {"i-1", "i-2"}
Tokens == {"t"}

\* A call returns normally or raises.
Outcomes == {"returns", "raises"}

(***************************************************************************)
(* Event.__init__(self, event, instance, token=None): the object has       *)
(* exactly the attributes event, instance and token.                       *)
(***************************************************************************)
EventNoDefault(ev, instance, token) ==
    [event |-> ev, instance |-> instance, token |-> token]

Event(ev, instance, token) ==
    [event |-> ev, instance |-> instance,
     token |-> IF token = Omitted THEN None ELSE token]

\* A provider that decodes a message may attach the target Application to
\* the Event object after constructing it (event.application = a).
SetApplication(e, a) == e @@ [application |-> a]

\* The loop variable before the first Event is bound to it.
Unbound == [unbound |-> TRUE]

(***************************************************************************)
(* BaseProvider.__init__(self, *applications)                              *)
(***************************************************************************)
AppTuples == UNION {[1..n -> Apps] : n \in 0..MaxApps}
TagEnrolled == [Key |-> "joule:enrolled", Value |-> "1"]

Init ==
    /\ applications \in AppTuples
    /\ tag_enrolled = TagEnrolled
    /\ enrolled \in BOOLEAN
    /\ enrolledAt = <<>>
    /\ pc = "while"
    /\ event = Unbound
    /\ app = 0
    /\ batch = <<>>
    /\ calls = <<>>
    /\ ctor = Unbound
    /\ exc = None

(***************************************************************************)
(* What the queue read can yield: Events built by the constructor, with    *)
(* or without a token, and for JOIN with or without a target Application   *)
(* (a registered one, an unregistered one, or None).                       *)
(***************************************************************************)
CtorArgs ==
    {a \in [event : Events, instance : Instances, token : Tokens \cup {Omitted}] :
        a.token # Omitted => a.event = JOIN}

Targets(kind) == IF kind = JOIN THEN Apps \cup {None, Omitted} ELSE {Omitted}

Decode(a, target) ==
    IF target = Omitted
    THEN Event(a.event, a.instance, a.token)
    ELSE SetApplication(Event(a.event, a.instance, a.token), target)

(***************************************************************************)
(* Records of the calls the loop makes during the current iteration.       *)
(***************************************************************************)
\* n is the number of Events the iterator has yielded so far in this
\* iteration: for a callback, the position in the batch of the Event object
\* it is handed.
ProviderCall(op) == [op |-> op, n |-> Len(batch)]
SleepCall(secs) == [op |-> "sleep", n |-> Len(batch), secs |-> secs]
CallbackCall(op, pos, e) ==
    [op |-> op, n |-> Len(batch), pos |-> pos, app |-> applications[pos], event |-> e]

\* No handler encloses any call of loop(): an exception raised by a call
\* unwinds out of loop(), whatever statement would have come next.
UnwindCaught(resume) == resume

Unwind(resume) == "raised"

\* A call that either returns (the thread goes to resume) or raises.
Call(entry, name, resume) ==
    /\ calls' = Append(calls, entry)
    /\ \E o \in Outcomes :
         IF o = "returns"
         THEN pc' = resume /\ exc' = exc
         ELSE pc' = Unwind(resume) /\ exc' = name

(***************************************************************************)
(* BaseProvider.loop                                                       *)
(***************************************************************************)
\* line 90-92: while True: logging.debug("Loop")
WhileTrue ==
    /\ pc = "while"
    /\ pc' = "mark_essential"
    /\ calls' = <<>>
    /\ batch' = <<>>
    /\ enrolledAt' = <<>>
    /\ UNCHANGED <<applications, tag_enrolled, enrolled, event, app, ctor, exc>>

\* line 93: self.mark_essential()
MarkEssentialSkipped ==
    /\ pc = "mark_essential"
    /\ pc' = "get_events"
    /\ UNCHANGED <<applications, tag_enrolled, enrolled, enrolledAt, event, app, batch, calls, ctor, exc>>

MarkEssential ==
    /\ pc = "mark_essential"
    /\ Call(ProviderCall("mark_essential"), "mark_essential", "get_events")
    /\ UNCHANGED <<applications, tag_enrolled, enrolled, enrolledAt, event, app, batch, ctor>>

\* line 95: self.get_events_from_message_queue() is called and returns the
\* iterator the for statement walks.
GetEvents ==
    /\ pc = "get_events"
    /\ Call(ProviderCall("get_events_from_message_queue"),
            "get_events_from_message_queue", "for_event")
    /\ UNCHANGED <<applications, tag_enrolled, enrolled, enrolledAt, event, app, batch, ctor>>

\* line 95: the iterator yields the next Event.
YieldEvent ==
    /\ pc = "for_event"
    /\ Len(batch) < MaxBatch
    /\ \E a \in CtorArgs : \E target \in Targets(a.event) :
         /\ ctor' = a
         /\ event' = Decode(a, target)
         /\ batch' = Append(batch, Decode(a, target))
    /\ enrolledAt' = Append(enrolledAt, enrolled)
    /\ pc' = "dispatch"
    /\ UNCHANGED <<applications, tag_enrolled, enrolled, app, calls, exc>>

AfterForSkipsSleep == "continue"

AfterFor == "sleep"

\* line 95: the iterator is exhausted.
StopIteration ==
    /\ pc = "for_event"
    /\ pc' = AfterFor
    /\ UNCHANGED <<applications, tag_enrolled, enrolled, enrolledAt, event, app, batch, calls, ctor, exc>>

\* line 95: the iterator raises while producing the next Event.
QueueReadRaises ==
    /\ pc = "for_event"
    /\ pc' = Unwind("for_event")
    /\ exc' = "get_events_from_message_queue"
    /\ UNCHANGED <<applications, tag_enrolled, enrolled, enrolledAt, event, app, batch, calls, ctor>>

\* lines 96, 103, 108: if / elif / elif on event.event.
Branch(e) ==
    IF e.event = JOIN THEN "join"
    ELSE IF e.event = LAUNCH THEN "launch"
    ELSE IF e.event = TERMINATE THEN "terminate"
    ELSE "for_event"

Dispatch ==
    /\ pc = "dispatch"
    /\ pc' = Branch(event)
    /\ app' = 1
    /\ UNCHANGED <<applications, tag_enrolled, enrolled, enrolledAt, event, batch, calls, ctor, exc>>

\* The Event handed to a callback is the loop variable.
CallbackArgFirst == batch[1]

CallbackArg == event

\* line 99: event.application == app
IsTarget(e, a) == e.application = a

\* line 98-100: for app in self.applications: if ...: app.join(self, event)
JoinVisit ==
    /\ pc = "join"
    /\ app <= Len(applications)
    /\ IF "application" \notin DOMAIN event
       THEN /\ pc' = Unwind("join")
            /\ exc' = "AttributeError"
            /\ UNCHANGED <<app, calls>>
       ELSE IF IsTarget(event, applications[app])
       THEN /\ Call(CallbackCall("join", app, CallbackArg), "join", "join")
            /\ app' = app + 1
       ELSE /\ app' = app + 1
            /\ UNCHANGED <<pc, calls, exc>>
    /\ UNCHANGED <<applications, tag_enrolled, enrolled, enrolledAt, event, batch, ctor>>

\* line 98 exhausted: on to line 101.
JoinDone ==
    /\ pc = "join"
    /\ app > Len(applications)
    /\ pc' = "mark_enrolled"
    /\ UNCHANGED <<applications, tag_enrolled, enrolled, enrolledAt, event, app, batch, calls, ctor, exc>>

\* mark_enrolled marks the instance as enrolled when it returns; is_enrolled
\* reports that mark.  Nothing in the provider contract removes it.
IsEnrolledAfter(returned) == IF returned THEN TRUE ELSE enrolled

\* line 101: self.mark_enrolled()
MarkEnrolled ==
    /\ pc = "mark_enrolled"
    /\ Call(ProviderCall("mark_enrolled"), "mark_enrolled", "for_event")
    /\ enrolled' = IsEnrolledAfter(pc' # "raised")
    /\ UNCHANGED <<applications, tag_enrolled, enrolledAt, event, app, batch, ctor>>

\* line 105-106: for app in self.applications: app.launch(self, event)
LaunchVisit ==
    /\ pc = "launch"
    /\ app <= Len(applications)
    /\ Call(CallbackCall("launch", app, CallbackArg), "launch", "launch")
    /\ app' = app + 1
    /\ UNCHANGED <<applications, tag_enrolled, enrolled, enrolledAt, event, batch, ctor>>

LaunchDoneEarly ==
    /\ pc = "launch"
    /\ app >= Len(applications)
    /\ pc' = "for_event"
    /\ UNCHANGED <<applications, tag_enrolled, enrolled, enrolledAt, event, app, batch, calls, ctor, exc>>

LaunchDone ==
    /\ pc = "launch"
    /\ app > Len(applications)
    /\ pc' = "for_event"
    /\ UNCHANGED <<applications, tag_enrolled, enrolled, enrolledAt, event, app, batch, calls, ctor, exc>>

\* line 110-111: for app in self.applications: app.terminate(self, event)
TerminateVisit ==
    /\ pc = "terminate"
    /\ app <= Len(applications)
    /\ Call(CallbackCall("terminate", app, CallbackArg), "terminate", "terminate")
    /\ app' = app + 1
    /\ UNCHANGED <<applications, tag_enrolled, enrolled, enrolledAt, event, batch, ctor>>

TerminateDoneDeregisters ==
    /\ pc = "terminate"
    /\ app > Len(applications)
    /\ pc' = "for_event"
    /\ applications' = IF applications = <<>> THEN applications ELSE Tail(applications)
    /\ UNCHANGED <<tag_enrolled, enrolled, enrolledAt, event, app, batch, calls, ctor, exc>>

TerminateDone ==
    /\ pc = "terminate"
    /\ app > Len(applications)
    /\ pc' = "for_event"
    /\ UNCHANGED <<applications, tag_enrolled, enrolled, enrolledAt, event, app, batch, calls, ctor, exc>>

\* line 113: sleep(5)
SleepSecs == 5

\* sleep(5) is a statement of the while body, after the for statement.
AfterSleepInsideFor == "for_event"

AfterSleep == "continue"

Sleep ==
    /\ pc = "sleep"
    /\ calls' = Append(calls, SleepCall(SleepSecs))
    /\ pc' = AfterSleep
    /\ UNCHANGED <<applications, tag_enrolled, enrolled, enrolledAt, event, app, batch, ctor, exc>>

\* line 114: continue
Continue ==
    /\ pc = "continue"
    /\ pc' = "while"
    /\ UNCHANGED <<applications, tag_enrolled, enrolled, enrolledAt, event, app, batch, calls, ctor, exc>>

Next ==
    \/ WhileTrue
    \/ MarkEssential
    \/ GetEvents
    \/ YieldEvent
    \/ StopIteration
    \/ QueueReadRaises
    \/ Dispatch
    \/ JoinVisit
    \/ JoinDone
    \/ MarkEnrolled
    \/ LaunchVisit
    \/ LaunchDone
    \/ TerminateVisit
    \/ TerminateDone
    \/ Sleep
    \/ Continue

Spec == Init /\ [][Next]_vars

\* loop() is the only thread and nothing suspends it for ever: while a
\* statement remains to be executed, one is executed.
FairSpec == Init /\ [][Next]_vars /\ WF_vars(Next)

TypeOK ==
    /\ applications \in AppTuples
    /\ tag_enrolled = TagEnrolled
    /\ pc \in {"while", "mark_essential", "get_events", "for_event", "dispatch",
               "join", "mark_enrolled", "launch", "terminate", "sleep",
               "continue", "raised"}
    /\ enrolled \in BOOLEAN
    /\ Len(enrolledAt) = Len(batch)
    /\ app \in 0..(MaxApps + 1)
    /\ Len(batch) <= MaxBatch
    /\ (pc = "raised") <=> (exc # None)

(***************************************************************************)
(* Reading the record of calls.                                            *)
(***************************************************************************)
CallbackOps == {"join", "launch", "terminate"}
DispatchOps == CallbackOps \cup {"mark_enrolled"}

\* The calls made for the i-th Event of the batch, in the order made.
Segment(i) ==
    LET Of(c) == c.n = i /\ c.op \in DispatchOps
    IN  SelectSeq(calls, Of)

Ops(s) == [j \in 1..Len(s) |-> s[j].op]
Count(s, op) == Cardinality({j \in 1..Len(s) : s[j].op = op})

IsPrefix(s, t) == Len(s) <= Len(t) /\ \A j \in 1..Len(s) : s[j] = t[j]

\* The loop is no longer dispatching the i-th Event of the batch.
DispatchLeft(i) ==
    \/ i < Len(batch)
    \/ pc \notin {"dispatch", "join", "mark_enrolled", "launch", "terminate"}

\* The iteration ran to the end of the for statement.
BatchDone == pc \in {"for_event", "sleep", "continue", "while"}

\* The registered positions, in registration order, that satisfy P.
PositionsWhere(P(_)) ==
    SelectSeq([i \in 1..Len(applications) |-> i], P)

\* The calls that dispatching Event e as the i-th of the batch is to make.
FanOut(op, e, i) ==
    [p \in 1..Len(applications) |->
        [op |-> op, n |-> i, pos |-> p, app |-> applications[p], event |-> e]]

Joins(e, i) ==
    LET Match(p) == "application" \in DOMAIN e /\ e.application = applications[p]
        ps == PositionsWhere(Match)
    IN  [k \in 1..Len(ps) |->
            [op |-> "join", n |-> i, pos |-> ps[k], app |-> applications[ps[k]],
             event |-> e]]

Expected(e, i) ==
    IF e.event = JOIN THEN Append(Joins(e, i), [op |-> "mark_enrolled", n |-> i])
    ELSE IF e.event = LAUNCH THEN FanOut("launch", e, i)
    ELSE FanOut("terminate", e, i)

(***************************************************************************)
(* C1: in every iteration mark_essential is called exactly once, and it is *)
(* the first call of the iteration: it precedes the queue read, every      *)
(* Application callback and every mark_enrolled.                           *)
(***************************************************************************)
C1_MarkEssentialFirst ==
    /\ calls # <<>> => calls[1].op = "mark_essential"
    /\ \A j \in 2..Len(calls) : calls[j].op # "mark_essential"
    /\ pc \notin {"while", "mark_essential"} => Count(calls, "mark_essential") = 1
    /\ batch # <<>> => Count(calls, "mark_essential") = 1

C1_Witness ==
    /\ pc = "continue"
    /\ Len(batch) = 2
    /\ Count(calls, "join") > 0
    /\ Count(calls, "launch") > 0
    /\ Count(calls, "mark_enrolled") > 0
    /\ calls[1].op = "mark_essential"
    /\ calls[2].op = "get_events_from_message_queue"

(***************************************************************************)
(* C2: once the loop has left a LAUNCH (resp. TERMINATE) Event of the      *)
(* polled batch, launch (resp. terminate) has been invoked with that Event *)
(* on every registered Application exactly once, in registration order,    *)
(* and nothing else (no join, no callback of the other kind, no            *)
(* mark_enrolled) has been invoked for it.                                 *)
(***************************************************************************)
C2_FanOutToEveryApplication ==
    \A i \in 1..Len(batch) :
        (batch[i].event \in {LAUNCH, TERMINATE} /\ DispatchLeft(i)) =>
            Segment(i) = FanOut(IF batch[i].event = LAUNCH THEN "launch" ELSE "terminate",
                                batch[i], i)

(***************************************************************************)
(* C3: for every JOIN Event, join is invoked only on registered            *)
(* Applications equal to the Event's target; and once the loop has left a  *)
(* JOIN Event that no registered Application matches, no join has been     *)
(* invoked for it and mark_enrolled has been invoked exactly once for it.  *)
(***************************************************************************)
HasTarget(e) == "application" \in DOMAIN e

NoApplicationMatches(e) ==
    \A p \in 1..Len(applications) : ~(HasTarget(e) /\ e.application = applications[p])

C3_JoinOnlyOnTarget ==
    /\ \A j \in 1..Len(calls) :
          calls[j].op = "join" =>
              /\ HasTarget(calls[j].event)
              /\ calls[j].app = calls[j].event.application
              /\ calls[j].app = applications[calls[j].pos]
    /\ \A i \in 1..Len(batch) :
          (batch[i].event = JOIN /\ NoApplicationMatches(batch[i]) /\ DispatchLeft(i)) =>
              Ops(Segment(i)) = <<"mark_enrolled">>

(***************************************************************************)
(* C4: the Events of one queue read are dispatched in the order produced:  *)
(* the calls of an iteration never go back to an earlier Event, each       *)
(* callback is handed the Event at its position of the batch, the calls    *)
(* for an Event are complete (each made once, none missing) before any     *)
(* call for the next Event, and the calls for the Event being dispatched   *)
(* are an initial part of the calls it is to receive.                      *)
(***************************************************************************)
C4_DispatchInQueueOrder ==
    /\ \A j \in 1..(Len(calls) - 1) : calls[j].n <= calls[j + 1].n
    /\ \A j \in 1..Len(calls) :
          calls[j].op \in DispatchOps => calls[j].n \in 1..Len(batch)
    /\ \A j \in 1..Len(calls) :
          calls[j].op \in CallbackOps => calls[j].event = batch[calls[j].n]
    /\ \A i \in 1..Len(batch) :
          /\ IsPrefix(Segment(i), Expected(batch[i], i))
          /\ (i < Len(batch) \/ BatchDone) => Segment(i) = Expected(batch[i], i)

C4_Witness ==
    /\ pc = "sleep"
    /\ Len(applications) = 2
    /\ Len(batch) = 2
    /\ batch[1].event = JOIN
    /\ batch[2].event = LAUNCH
    /\ Ops(calls) = <<"mark_essential", "get_events_from_message_queue",
                      "join", "mark_enrolled", "launch", "launch">>

(***************************************************************************)
(* C5: once the loop has left a JOIN Event, mark_enrolled has been called  *)
(* exactly once for it, after every join callback for it; and when the     *)
(* iteration is over, the number of mark_enrolled calls equals the number  *)
(* of JOIN Events in the polled batch.                                     *)
(***************************************************************************)
JoinEvents == {i \in 1..Len(batch) : batch[i].event = JOIN}

IterationOver == pc \in {"sleep", "continue", "raised"}

C5_MarkEnrolledOncePerJoin ==
    /\ \A i \in JoinEvents :
          DispatchLeft(i) =>
              /\ Count(Segment(i), "mark_enrolled") = 1
              /\ Ops(Segment(i))[Len(Segment(i))] = "mark_enrolled"
    /\ IterationOver => Count(calls, "mark_enrolled") = Cardinality(JoinEvents)

(***************************************************************************)
(* C6: a JOIN Event built by the Event constructor, which carries no       *)
(* application reference, is not fatal: no exception leaves the loop       *)
(* because of it, and once the loop has left it, no join and exactly one   *)
(* mark_enrolled have been invoked for it.                                 *)
(***************************************************************************)
C6_JoinWithoutApplicationNotFatal ==
    /\ exc # "AttributeError"
    /\ \A i \in JoinEvents :
          (~HasTarget(batch[i]) /\ DispatchLeft(i)) =>
              Ops(Segment(i)) = <<"mark_enrolled">>

(***************************************************************************)
(* C7: a failure raised by an Application callback does not terminate      *)
(* dispatch: the loop is never ended by an exception of join, launch or    *)
(* terminate, and every Event the loop has left has received all its calls.*)
(***************************************************************************)
C7_CallbackFailureIsolated ==
    /\ ~(pc = "raised" /\ exc \in CallbackOps)
    /\ \A i \in 1..Len(batch) :
          (HasTarget(batch[i]) \/ batch[i].event # JOIN) /\ DispatchLeft(i) =>
              Segment(i) = Expected(batch[i], i)

(***************************************************************************)
(* C8: a failing backend call surfaces from the iteration and nothing is   *)
(* marked afterwards.  An exception of mark_essential,                     *)
(* get_events_from_message_queue or mark_enrolled leaves loop(); after a   *)
(* failed mark_essential the iteration has made no other call; after a     *)
(* failed queue read every dispatch call made is for an Event that was     *)
(* yielded; the failing call is the last call made, and once the           *)
(* exception has left the loop no further step is taken.                   *)
(***************************************************************************)
BackendOps == {"mark_essential", "get_events_from_message_queue", "mark_enrolled"}

C8_Surfaced ==
    /\ exc \in BackendOps => pc = "raised"
    /\ exc = "mark_essential" => Ops(calls) = <<"mark_essential">>
    /\ exc = "get_events_from_message_queue" =>
          /\ Count(calls, "sleep") = 0
          /\ \A j \in 1..Len(calls) :
                calls[j].op \in DispatchOps => calls[j].n \in 1..Len(batch)
          /\ \A i \in 1..Len(batch) : Segment(i) = Expected(batch[i], i)
    /\ exc = "mark_enrolled" =>
          /\ calls[Len(calls)].op = "mark_enrolled"
          /\ calls[Len(calls)].n = Len(batch)
          /\ Count(Segment(Len(batch)), "mark_enrolled") = 1

C8_BackendFailureSurfaces ==
    /\ []C8_Surfaced
    /\ [][pc = "raised" => UNCHANGED vars]_vars

C8_Witness ==
    /\ pc = "raised"
    /\ exc = "get_events_from_message_queue"
    /\ Len(batch) = 1
    /\ batch[1].event = JOIN
    /\ Count(calls, "mark_enrolled") = 1

(***************************************************************************)
(* C9: when the queue read yields nothing, the iteration makes no          *)
(* Application callback and no mark_enrolled call, mark_essential has run  *)
(* once, and the loop idles once (sleep(5)) before the next iteration is   *)
(* entered.                                                                *)
(***************************************************************************)
C9_EmptyCalls ==
    batch = <<>> =>
        /\ \A j \in 1..Len(calls) : calls[j].op \notin DispatchOps
        /\ pc = "sleep" =>
              Ops(calls) = <<"mark_essential", "get_events_from_message_queue">>
        /\ pc = "continue" =>
              /\ Ops(calls) = <<"mark_essential", "get_events_from_message_queue", "sleep">>
              /\ calls[3].secs = 5

C9_EmptyBatch ==
    /\ []C9_EmptyCalls
    /\ [][(pc' = "while" /\ batch = <<>>) =>
             (pc = "continue" /\ Count(calls, "mark_essential") = 1
                              /\ Count(calls, "sleep") = 1)]_vars

C9_Witness ==
    /\ pc = "continue"
    /\ batch = <<>>
    /\ Len(calls) = 3
    /\ Len(applications) = 2

(***************************************************************************)
(* C10: an Event constructed with (kind, instance) and no token has token  *)
(* None and exactly the kind and instance given; and the loop never        *)
(* mutates an Event it dispatches: the Event handed to every callback is   *)
(* the Event the queue read yielded, the loop variable changes only when   *)
(* the iterator yields, and the Events of the batch stay as yielded.       *)
(***************************************************************************)
C10_Constructed ==
    /\ "event" \in DOMAIN ctor =>
          /\ event.event = ctor.event
          /\ event.instance = ctor.instance
          /\ ctor.token = Omitted => event.token = None
    /\ batch # <<>> => event = batch[Len(batch)]
    /\ \A j \in 1..Len(calls) :
          calls[j].op \in CallbackOps => calls[j].event = batch[calls[j].n]

C10_EventConstructionAndImmutability ==
    /\ []C10_Constructed
    /\ [][event' # event => pc = "for_event"]_vars
    /\ [][\A i \in 1..Len(batch) : i <= Len(batch') => batch'[i] = batch[i]]_vars

C10_Witness ==
    /\ pc = "for_event"
    /\ "event" \in DOMAIN ctor
    /\ ctor.token = Omitted
    /\ ctor.event = TERMINATE
    /\ ctor.instance = "i-2"
    /\ event = [event |-> TERMINATE, instance |-> "i-2", token |-> None]
    /\ Count(calls, "terminate") = 2

(***************************************************************************)
(* C11: the loop has no terminal state: if no provider call and no         *)
(* Application callback ever raises (each polled batch being finite), the  *)
(* loop reaches its idle step again and again and each idle is followed by *)
(* a further mark_essential call.                                          *)
(***************************************************************************)
CallNames == BackendOps \cup CallbackOps

C11_LoopsForever ==
    [](exc \notin CallNames) =>
        /\ []<>(pc = "sleep")
        /\ [](pc = "sleep" => <>(pc = "mark_essential"))

(***************************************************************************)
(* C12: no Event is left half-processed across batches.  The queue is read *)
(* exactly once per iteration, before any Event is dispatched; when the    *)
(* loop idles every Event of the batch has received all its calls; and the *)
(* next iteration (hence the next queue read) is entered only from such a  *)
(* state.                                                                  *)
(***************************************************************************)
AllDispatched == \A i \in 1..Len(batch) : Segment(i) = Expected(batch[i], i)

C12_ReadOnce ==
    /\ Count(calls, "get_events_from_message_queue") <= 1
    /\ pc \in {"for_event", "dispatch", "join", "mark_enrolled", "launch",
               "terminate", "sleep", "continue"} =>
          /\ Count(calls, "get_events_from_message_queue") = 1
          /\ calls[2].op = "get_events_from_message_queue"
    /\ (pc \in {"sleep", "continue"} \/ Count(calls, "sleep") > 0) => AllDispatched

C12_NoHalfProcessedEvent ==
    /\ []C12_ReadOnce
    /\ [][(pc = "get_events" /\ pc' # pc) =>
             (Ops(calls) = <<"mark_essential">> /\ batch = <<>>)]_vars
    /\ [][(pc = "while" /\ pc' # pc) => AllDispatched]_vars

C12_Witness ==
    /\ pc = "sleep"
    /\ Len(applications) = 2
    /\ Len(batch) = 2
    /\ batch[1].event = LAUNCH
    /\ batch[2].event = TERMINATE
    /\ Ops(calls) = <<"mark_essential", "get_events_from_message_queue",
                      "launch", "launch", "terminate", "terminate">>

(***************************************************************************)
(* C13: the ordered Application collection and the enrollment tag are set  *)
(* at construction and no step of the loop changes them: no Application is *)
(* registered, deregistered or moved, whatever Events arrive.              *)
(***************************************************************************)
C13_ApplicationsFixed ==
    /\ [](tag_enrolled = [Key |-> "joule:enrolled", Value |-> "1"])
    /\ [][applications' = applications /\ tag_enrolled' = tag_enrolled]_vars

C13_Witness ==
    /\ pc = "continue"
    /\ applications = <<"A", "B">>
    /\ Len(batch) = 2
    /\ batch[1].event = TERMINATE
    /\ batch[2].event = JOIN
    /\ Ops(calls) = <<"mark_essential", "get_events_from_message_queue",
                      "terminate", "terminate", "join", "mark_enrolled", "sleep">>

(***************************************************************************)
(* C14: the loop idles at most once per iteration, for the fixed interval  *)
(* of 5, as the last call of the iteration: only after every Event of the  *)
(* batch has received all its calls, never between two Events; and a       *)
(* further mark_essential call is reached only after exactly one idle, so  *)
(* between two consecutive mark_essential calls there is exactly one idle, *)
(* whatever the batch was.                                                 *)
(***************************************************************************)
C14_IdleLast ==
    /\ Count(calls, "sleep") <= 1
    /\ \A j \in 1..Len(calls) :
          calls[j].op = "sleep" =>
              /\ j = Len(calls)
              /\ calls[j].secs = 5
              /\ calls[j].n = Len(batch)
    /\ Count(calls, "sleep") = 1 => (AllDispatched /\ pc \in {"continue", "while"})
    /\ pc = "continue" => Count(calls, "sleep") = 1
    /\ pc \in {"for_event", "dispatch", "join", "mark_enrolled", "launch", "terminate"} =>
          Count(calls, "sleep") = 0

C15_EnrollmentNotConsulted ==
    /\ \A j \in 1..Len(calls) :
          calls[j].op \notin {"is_enrolled", "send_join_to_message_queue"}
    /\ \A i \in JoinEvents :
          (\E h \in JoinEvents : h < i) => enrolledAt[i]
    /\ \A i \in JoinEvents :
          (enrolledAt[i] /\ DispatchLeft(i)) => Segment(i) = Expected(batch[i], i)

(***************************************************************************)
(* C16: callbacks are issued per position of the registered collection.    *)
(* For an Application registered at k >= 2 positions, once the loop has    *)
(* left a LAUNCH or TERMINATE Event its callback has been invoked k times  *)
(* on that Application, and once the loop has left a JOIN Event targeting  *)
(* it, join has been invoked k times on it and mark_enrolled once.         *)
(***************************************************************************)
PositionsOf(a) == {p \in 1..Len(applications) : applications[p] = a}

CallbacksOn(s, op, a) ==
    Cardinality({j \in 1..Len(s) : s[j].op = op /\ s[j].app = a})

C16_CallbackPerPosition ==
    \A i \in 1..Len(batch) : \A a \in Apps :
        (Cardinality(PositionsOf(a)) >= 2 /\ DispatchLeft(i)) =>
            /\ batch[i].event = LAUNCH =>
                  CallbacksOn(Segment(i), "launch", a) = Cardinality(PositionsOf(a))
            /\ batch[i].event = TERMINATE =>
                  CallbacksOn(Segment(i), "terminate", a) = Cardinality(PositionsOf(a))
            /\ (batch[i].event = JOIN /\ HasTarget(batch[i]) /\ batch[i].application = a) =>
                  /\ CallbacksOn(SelectSeq(Segment(i), LAMBDA c : c.op = "join"), "join", a)
                        = Cardinality(PositionsOf(a))
                  /\ Count(Segment(i), "mark_enrolled") = 1

====
